---- MODULE Spec2Model ----
(***************************************************************************)
(* Model of the aws_acm module (lib/ansible/modules/cloud/amazon/          *)
(* aws_acm.py): one invocation reconciles a declared state of an ACM       *)
(* certificate against the remote certificate store.                       *)
(*                                                                         *)
(* Python values are modelled as follows: a str is a sequence of           *)
(* one-character strings, None is the distinguished value None, a dict is  *)
(* a record/function whose DOMAIN is its key set, a list is a sequence.    *)
(***************************************************************************)
EXTENDS Integers, Sequences, FiniteSets, TLC

(* ------------------------------ bounds --------------------------------- *)

\* number of identifiers (arns) the remote store can ever allocate
MaxArn == 3
\* number of invocations run one after the other in one behaviour
MaxRuns == 2
\* length of the PEM texts standardize_pem and pem_compare are applied to
MaxPemLen == 3

(* --------------------------- Python values ----------------------------- *)

None == <<"None">>

\* Python truthiness of an optional str: None and '' are falsy
Truthy(v) == v # None /\ v # <<>>

(* ------------------------------ PEM text ------------------------------- *)

\* the characters str.strip() removes from both ends
StripChars == {" ", "\t", "\n", "\r", "\f"}

\* str.replace(c, '') for a single character c
RemoveChar(s, c) == SelectSeq(s, LAMBDA ch : ch # c)

\* '--' in pem
HasDoubleDash(s) == \E i \in 1..(Len(s) - 1) : s[i] = "-" /\ s[i + 1] = "-"

\* one pass of pem.replace('--','-'): non-overlapping, left to right
RECURSIVE ReplaceDoubleDash(_)
ReplaceDoubleDash(s) ==
    IF Len(s) < 2 THEN s
    ELSE IF s[1] = "-" /\ s[2] = "-"
         THEN <<"-">> \o ReplaceDoubleDash(SubSeq(s, 3, Len(s)))
         ELSE <<s[1]>> \o ReplaceDoubleDash(Tail(s))

\* a single pass of the replacement instead of the loop
CollapseDashesOnce(s) == ReplaceDoubleDash(s)

\* while '--' in pem: pem = pem.replace('--','-')
RECURSIVE CollapseDashes(_)
CollapseDashes(s) ==
    IF HasDoubleDash(s) THEN CollapseDashes(ReplaceDoubleDash(s)) ELSE s

\* str.lower() on the letters the model uses
LowerChar(c) ==
    CASE c = "A" -> "a"
      [] c = "B" -> "b"
      [] c = "C" -> "c"
      [] c = "K" -> "k"
      [] OTHER -> c

Lower(s) == [i \in 1..Len(s) |-> LowerChar(s[i])]

\* str.strip()
RECURSIVE LStrip(_)
LStrip(s) ==
    IF s # <<>> /\ s[1] \in StripChars THEN LStrip(Tail(s)) ELSE s

RECURSIVE RStrip(_)
RStrip(s) ==
    IF s # <<>> /\ s[Len(s)] \in StripChars
    THEN RStrip(SubSeq(s, 1, Len(s) - 1))
    ELSE s

Strip(s) == RStrip(LStrip(s))

standardize_pem(pem) ==
    IF pem = None THEN <<>>
    ELSE Strip(Lower(CollapseDashes(
             RemoveChar(RemoveChar(RemoveChar(pem, " "), "\n"), "\t"))))

\* a comparison that skips the normalisation
pem_compare_literal(a, b) == a = b

pem_compare(a, b) == standardize_pem(a) = standardize_pem(b)

(* ------------------------- values of the model ------------------------- *)

\* two PEM texts of the same certificate, a different certificate, a chain
CertA  == <<"-", "-", "A", "b", "-", "-", "\n">>
CertA2 == <<"-", "a", " ", "B", "-">>
CertB  == <<"-", "-", "B", "b", "-", "-", "\n">>
ChainC == <<"-", "-", "C", "\n", "-", "-", "A">>
ChainC2 == <<"-", "c", "-", "a", "\n">>
Key1   == <<"-", "K", "-">>

DomA == <<"d", "A">>
DomB == <<"d", "B">>

Name1 == <<"n", "1">>
Name2 == <<"n", "2">>

Digit == <<"1", "2", "3", "4", "5", "6">>
Arn(i) == <<"a", Digit[i]>>
Arns == {Arn(i) : i \in 1..MaxArn}

(* ----------------------- remote certificate store ----------------------- *)

\* the domain name encoded in a certificate body
CertDomain(pem) == IF pem_compare(pem, CertB) THEN DomB ELSE DomA

\* a dict without keys
EmptyDict == [k \in {} |-> <<>>]

\* None where a dict is expected
NoneDict == [none |-> TRUE]

\* dict.update: the keys of new override those of old
MergeTags(old, new) ==
    [k \in (DOMAIN old) \cup (DOMAIN new) |->
        IF k \in DOMAIN new THEN new[k] ELSE old[k]]

\* the record the store keeps for an imported certificate; the store echoes
\* the leaf certificate as the chain when no chain comes with the import
StoredRecord(certificate, certificate_chain, tagmap) ==
    [certificate       |-> certificate,
     certificate_chain |-> IF Truthy(certificate_chain)
                           THEN certificate_chain ELSE certificate,
     tags              |-> tagmap,
     domain_name       |-> CertDomain(certificate)]

\* a record of the store that has no certificate body (yet)
PendingRecord(tagmap, domain) == [tags |-> tagmap, domain_name |-> domain]

\* the dict get_certificates returns for the record at arn a
Described(st, a) ==
    [k \in (DOMAIN st[a]) \cup {"certificate_arn"} |->
        IF k = "certificate_arn" THEN a ELSE st[a][k]]

\* which records of the store a lookup selects: every criterion that is
\* given narrows the inventory
Selected(st, domain_name, arn, only_tags) ==
    {a \in DOMAIN st :
        /\ Truthy(domain_name) => st[a].domain_name = domain_name
        /\ Truthy(arn) => a = arn
        /\ only_tags # NoneDict =>
              \A k \in DOMAIN only_tags :
                  /\ "tags" \in DOMAIN st[a]
                  /\ k \in DOMAIN st[a].tags
                  /\ st[a].tags[k] = only_tags[k]}

\* the arns of a set, as a list in the order of the inventory
RECURSIVE ArnList(_, _)
ArnList(S, i) ==
    IF i > MaxArn THEN <<>>
    ELSE (IF Arn(i) \in S THEN <<Arn(i)>> ELSE <<>>) \o ArnList(S, i + 1)

get_certificates(st, domain_name, arn, only_tags) ==
    LET l == ArnList(Selected(st, domain_name, arn, only_tags), 1)
    IN  [i \in 1..Len(l) |-> Described(st, l[i])]

\* the identifier the store allocates for a new record
FreshArn(alloc) ==
    Arn(CHOOSE i \in 1..MaxArn :
            /\ Arn(i) \notin alloc
            /\ \A j \in 1..(i - 1) : Arn(j) \in alloc)

\* whether the store accepts an import: an overwrite needs its record to
\* exist, a new record needs an identifier to be left
ImportAccepted(st, alloc, arn) ==
    IF Truthy(arn) THEN arn \in DOMAIN st ELSE Arns \ alloc # {}

\* the identifier import_certificate returns
ImportedArn(alloc, arn) == IF Truthy(arn) THEN arn ELSE FreshArn(alloc)

\* the store after import_certificate
import_certificate(st, alloc, certificate, private_key, certificate_chain, arn, tagmap) ==
    LET a   == ImportedArn(alloc, arn)
        old == IF a \in DOMAIN st /\ "tags" \in DOMAIN st[a]
               THEN st[a].tags ELSE EmptyDict
        new == IF tagmap = NoneDict THEN old ELSE MergeTags(old, tagmap)
    IN  [x \in (DOMAIN st) \cup {a} |->
            IF x = a
            THEN StoredRecord(certificate, certificate_chain, new)
            ELSE st[x]]

\* the store after delete_certificate; deleting what is not there is no error
delete_certificate(st, arn) == [x \in (DOMAIN st) \ {arn} |-> st[x]]

\* get_domain_of_cert
get_domain_of_cert(st, arn) == st[arn].domain_name

(* ------------------------------- state --------------------------------- *)

Procs == {1, 2}

VARIABLES
    store,          \* the remote store: arn -> record
    allocated,      \* the arns the store has ever handed out
    pc,             \* where each invocation of the module stands
    params,         \* module.params of each invocation
    check_mode,     \* module.check_mode of each invocation
    tags,           \* the local tags of main
    certificates,   \* the local certificates of main
    arn,            \* the local arn of main
    changed,        \* the changed flag main is about to report
    idx,            \* position of the for loop over certificates
    result,         \* what exit_json or fail_json reported
    calls,          \* the remote calls the invocation has issued, in order
    store0,         \* the store when the invocation began
    prev,           \* outcome of the previous invocation of the declaration
    runs,           \* number of invocations begun so far
    pem_a,          \* argument a of pem_compare, argument of standardize_pem
    pem_b,          \* argument b of pem_compare
    pem_pc,         \* which of the two functions has been applied
    pem_out         \* what the functions returned

mainVars == <<store, allocated, pc, params, check_mode, tags, certificates,
              arn, changed, idx, result, calls, store0, prev, runs>>

pemVars == <<pem_a, pem_b, pem_pc, pem_out>>

vars == <<mainVars, pemVars>>

locals == <<tags, certificates, arn, changed, idx>>

(* ---------------------------- declarations ----------------------------- *)

Declaration(state, certificate, certificate_arn, certificate_chain, domain_name, name_tag, private_key) ==
    [state             |-> state,
     certificate       |-> certificate,
     certificate_arn   |-> certificate_arn,
     certificate_chain |-> certificate_chain,
     domain_name       |-> domain_name,
     name_tag          |-> name_tag,
     private_key       |-> private_key]

PresentDeclarations ==
    {Declaration("present", c, a, ch, d, n, k) :
        c \in {None, <<>>, CertA}, a \in {None, <<>>, Arn(1)},
        ch \in {None, ChainC}, d \in {None, DomB},
        n \in {None, <<>>, Name1}, k \in {None, <<>>, Key1}}

\* certificate, certificate_chain and private_key are not read when absent
AbsentDeclarations ==
    {Declaration("absent", None, a, None, d, n, None) :
        a \in {None, <<>>, Arn(1), Arn(MaxArn)}, d \in {None, DomA, DomB},
        n \in {None, <<>>, Name1}}

Declarations == PresentDeclarations \cup AbsentDeclarations

NoParams == Declaration("present", None, None, None, None, None, None)

(* ------------------------------ the store ------------------------------ *)

TagMaps == {EmptyDict, [Name |-> Name1], [Name |-> Name2]}

InitRecords ==
    {StoredRecord(c, ch, t) :
        c \in {CertA2, CertB}, ch \in {CertA2, ChainC2}, t \in TagMaps}
    \cup {PendingRecord([Name |-> Name1], DomA)}

InitArns == {Arn(1), Arn(2)}

InitStores ==
    UNION {[S -> InitRecords] : S \in SUBSET InitArns}

NoResult == [none |-> TRUE]

\* no PEM function is under test
PemIdle ==
    /\ pem_a = None
    /\ pem_b = None
    /\ pem_pc = "idle"
    /\ pem_out = NoResult

Init ==
    /\ PemIdle
    /\ store \in InitStores
    /\ allocated = DOMAIN store
    /\ pc = [p \in Procs |-> "idle"]
    /\ params = [p \in Procs |-> NoParams]
    /\ check_mode = [p \in Procs |-> FALSE]
    /\ tags = [p \in Procs |-> NoneDict]
    /\ certificates = [p \in Procs |-> <<>>]
    /\ arn = [p \in Procs |-> None]
    /\ changed = [p \in Procs |-> FALSE]
    /\ idx = [p \in Procs |-> 1]
    /\ result = [p \in Procs |-> NoResult]
    /\ calls = [p \in Procs |-> <<>>]
    /\ store0 = [p \in Procs |-> store]
    /\ prev = [p \in Procs |-> NoResult]
    /\ runs = 0

(* ------------------------------ helpers -------------------------------- *)

Set(f, p, v) == [f EXCEPT ![p] = v]

\* module.fail_json(msg=..., **kw): the invocation ends in failure
FailJson(p, msg, extra) ==
    /\ pc' = Set(pc, p, "failed")
    /\ result' = Set(result, p, [failed |-> TRUE, msg |-> msg, info |-> extra])

\* module.exit_json(**kw): the invocation ends in success
ExitJson(p, res) ==
    /\ pc' = Set(pc, p, "done")
    /\ result' = Set(result, p, res)

Call(p, c) == calls' = Set(calls, p, Append(calls[p], c))

(* ------------------------ argument requirements ------------------------ *)

\* a variant without the last branch of the check
PresentArgumentErrorNoKey(par) ==
    IF ~Truthy(par.certificate) THEN "certificate must be specified"
    ELSE IF Truthy(par.certificate_arn) THEN "certificate_arn is only valid if absent"
    ELSE IF ~Truthy(par.name_tag) THEN "name_tag must be specified"
    ELSE "ok"

\* the message of the argument check that fails, or "ok" when all pass
PresentArgumentError(par) ==
    IF ~Truthy(par.certificate) THEN "certificate must be specified"
    ELSE IF Truthy(par.certificate_arn) THEN "certificate_arn is only valid if absent"
    ELSE IF ~Truthy(par.name_tag) THEN "name_tag must be specified"
    ELSE IF ~Truthy(par.private_key) THEN "private_key must be specified"
    ELSE "ok"

absent_args == <<"certificate_arn", "domain_name", "name_tag">>

\* sum([(module.params[a] != None) for a in absent_args])
AbsentArgCount(par) ==
    Cardinality({i \in 1..Len(absent_args) : par[absent_args[i]] # None})

\* a variant that only rejects several selectors
AbsentArgumentErrorAtMostOne(par) ==
    IF AbsentArgCount(par) > 1 THEN "exactly one selector must be specified"
    ELSE "ok"

AbsentArgumentError(par) ==
    IF AbsentArgCount(par) # 1 THEN "exactly one selector must be specified"
    ELSE "ok"

ArgumentError(par) ==
    IF par.state = "present" THEN PresentArgumentError(par)
    ELSE AbsentArgumentError(par)

\* a variant that never builds the tags
TagsOfNone(par) == NoneDict

\* tags = {'Name': name_tag} if name_tag else None
TagsOf(par) ==
    IF Truthy(par.name_tag) THEN [Name |-> par.name_tag] ELSE NoneDict

(* ------------------------------ actions -------------------------------- *)

\* the module is invoked with one of the declarations ds, while fewer than
\* limit invocations have begun
Invoke(p, ds, limit) ==
    /\ pc[p] = "idle"
    /\ runs < limit
    /\ \E d \in ds : params' = Set(params, p, d)
    /\ \E c \in BOOLEAN : check_mode' = Set(check_mode, p, c)
    /\ pc' = Set(pc, p, "validate")
    /\ store0' = Set(store0, p, store)
    /\ runs' = runs + 1
    /\ UNCHANGED <<store, allocated, locals, result, calls, prev>>
    /\ UNCHANGED pemVars

\* the module is invoked with a declaration
Begin(p) == Invoke(p, Declarations, MaxRuns)

\* a variant that goes on to the lookup whatever the argument check says
ValidateWithoutFail(p) ==
    /\ pc[p] = "validate"
    /\ pc' = Set(pc, p, "get_certificates")
    /\ tags' = Set(tags, p, TagsOf(params[p]))
    /\ UNCHANGED <<store, allocated, params, certificates, arn, changed, idx,
                   result, calls, store0, prev, runs>>
    /\ UNCHANGED <<check_mode, pemVars>>

\* the argument requirements, then the local tags
Validate(p) ==
    /\ pc[p] = "validate"
    /\ IF ArgumentError(params[p]) # "ok"
       THEN /\ FailJson(p, ArgumentError(params[p]), <<>>)
            /\ UNCHANGED tags
       ELSE /\ pc' = Set(pc, p, "get_certificates")
            /\ tags' = Set(tags, p, TagsOf(params[p]))
            /\ UNCHANGED result
    /\ UNCHANGED <<store, allocated, params, certificates, arn, changed, idx,
                   calls, store0, prev, runs>>
    /\ UNCHANGED <<check_mode, pemVars>>

\* fetch the list of certificates currently in ACM
GetCertificates(p) ==
    /\ pc[p] = "get_certificates"
    /\ \E ok \in BOOLEAN :
          /\ Call(p, [op |-> "list", ok |-> ok])
          /\ IF ok
             THEN /\ certificates' = Set(certificates, p,
                         get_certificates(store, params[p].domain_name,
                                          params[p].certificate_arn, tags[p]))
                  /\ pc' = Set(pc, p, "decide")
                  /\ UNCHANGED result
             ELSE /\ FailJson(p, "list failed", <<>>)
                  /\ UNCHANGED certificates
    /\ UNCHANGED <<store, allocated, params, tags, arn, changed, idx, store0,
                   prev, runs>>
    /\ UNCHANGED <<check_mode, pemVars>>

\* a variant that takes the first certificate when several are found
PresentBranchFirst(n) == IF n >= 1 THEN "update" ELSE "create"

\* if len(certificates) > 1 ... elif len(certificates) == 1 ... else
PresentBranch(n) ==
    IF n > 1 THEN "ambiguous" ELSE IF n = 1 THEN "update" ELSE "create"

\* more than one certificate with the Name tag
PresentAmbiguous(p) ==
    /\ pc[p] = "decide"
    /\ params[p].state = "present"
    /\ PresentBranch(Len(certificates[p])) = "ambiguous"
    /\ FailJson(p, "more than one certificate", certificates[p])
    /\ UNCHANGED <<store, allocated, params, locals, calls, store0, prev, runs>>
    /\ UNCHANGED <<check_mode, pemVars>>

\* a variant that does not look at the tags of the record found
InternalErrorBodyOnly(old_cert, par) ==
    IF "certificate" \notin DOMAIN old_cert
    THEN "unsure what the existing cert is"
    ELSE "ok"

\* the record found is not one main can update
InternalError(old_cert, par) ==
    IF \/ "tags" \notin DOMAIN old_cert
       \/ "Name" \notin DOMAIN old_cert.tags
       \/ old_cert.tags.Name # par.name_tag
    THEN "unsure which certificate to update"
    ELSE IF "certificate" \notin DOMAIN old_cert
    THEN "unsure what the existing cert is"
    ELSE "ok"

PresentInternalError(p) ==
    /\ pc[p] = "decide"
    /\ params[p].state = "present"
    /\ PresentBranch(Len(certificates[p])) = "update"
    /\ InternalError(certificates[p][1], params[p]) # "ok"
    /\ FailJson(p, InternalError(certificates[p][1], params[p]),
                <<certificates[p][1]>>)
    /\ UNCHANGED <<store, allocated, params, locals, calls, store0, prev, runs>>
    /\ UNCHANGED <<check_mode, pemVars>>

\* a variant that compares the stored chain with the supplied chain only
SameIgnoringEcho(old_cert, par) ==
    /\ pem_compare(old_cert.certificate, par.certificate)
    /\ pem_compare(old_cert.certificate_chain, par.certificate_chain)

\* are the existing certificate in ACM and the local certificate the same?
Same(old_cert, par) ==
    /\ pem_compare(old_cert.certificate, par.certificate)
    /\ IF Truthy(par.certificate_chain)
       THEN pem_compare(old_cert.certificate_chain, par.certificate_chain)
       ELSE pem_compare(old_cert.certificate_chain, par.certificate)

\* the existing certificate is the same: nothing to do
PresentSame(p) ==
    /\ pc[p] = "decide"
    /\ params[p].state = "present"
    /\ PresentBranch(Len(certificates[p])) = "update"
    /\ InternalError(certificates[p][1], params[p]) = "ok"
    /\ Same(certificates[p][1], params[p])
    /\ arn' = Set(arn, p, certificates[p][1].certificate_arn)
    /\ changed' = Set(changed, p, FALSE)
    /\ pc' = Set(pc, p, "get_domain")
    /\ UNCHANGED <<store, allocated, params, tags, certificates, idx, result,
                   calls, store0, prev, runs>>
    /\ UNCHANGED <<check_mode, pemVars>>

\* a variant that forgets to pass the chain on
ImportWithoutChain(p, target) ==
    /\ \E ok \in {FALSE, ImportAccepted(store, allocated, target)} :
          /\ Call(p, [op                |-> "import",
                      certificate       |-> params[p].certificate,
                      private_key       |-> params[p].private_key,
                      certificate_chain |-> None,
                      arn               |-> target,
                      tags              |-> tags[p],
                      ok                |-> ok])
          /\ IF ok
             THEN /\ store' = import_certificate(store, allocated,
                                  params[p].certificate, params[p].private_key,
                                  None, target, tags[p])
                  /\ allocated' = allocated \cup {ImportedArn(allocated, target)}
                  /\ arn' = Set(arn, p, ImportedArn(allocated, target))
                  /\ changed' = Set(changed, p, TRUE)
                  /\ pc' = Set(pc, p, "get_domain")
                  /\ UNCHANGED result
             ELSE /\ FailJson(p, "import failed", <<>>)
                  /\ UNCHANGED <<store, allocated, arn, changed>>

\* acm.import_certificate as main calls it, with the arn to overwrite or None
Import(p, target) ==
    /\ \E ok \in {FALSE, ImportAccepted(store, allocated, target)} :
          /\ Call(p, [op                |-> "import",
                      certificate       |-> params[p].certificate,
                      private_key       |-> params[p].private_key,
                      certificate_chain |-> params[p].certificate_chain,
                      arn               |-> target,
                      tags              |-> tags[p],
                      ok                |-> ok])
          /\ IF ok
             THEN /\ store' = import_certificate(store, allocated,
                                  params[p].certificate, params[p].private_key,
                                  params[p].certificate_chain, target, tags[p])
                  /\ allocated' = allocated \cup {ImportedArn(allocated, target)}
                  /\ arn' = Set(arn, p, ImportedArn(allocated, target))
                  /\ changed' = Set(changed, p, TRUE)
                  /\ pc' = Set(pc, p, "get_domain")
                  /\ UNCHANGED result
             ELSE /\ FailJson(p, "import failed", <<>>)
                  /\ UNCHANGED <<store, allocated, arn, changed>>

\* a variant that imports the new certificate as a new record
PresentOverwriteUnpinned(p) ==
    /\ pc[p] = "decide"
    /\ params[p].state = "present"
    /\ PresentBranch(Len(certificates[p])) = "update"
    /\ InternalError(certificates[p][1], params[p]) = "ok"
    /\ ~Same(certificates[p][1], params[p])
    /\ Import(p, None)
    /\ UNCHANGED <<params, tags, certificates, idx, store0, prev, runs>>
    /\ UNCHANGED <<check_mode, pemVars>>

\* a variant that deletes the old record and then imports a new one
PresentOverwriteByReplace(p) ==
    /\ pc[p] = "decide"
    /\ params[p].state = "present"
    /\ PresentBranch(Len(certificates[p])) = "update"
    /\ InternalError(certificates[p][1], params[p]) = "ok"
    /\ ~Same(certificates[p][1], params[p])
    /\ calls' = Set(calls, p, calls[p] \o
           <<[op |-> "delete", ok |-> TRUE,
              arn |-> certificates[p][1].certificate_arn],
             [op                |-> "import",
              certificate       |-> params[p].certificate,
              private_key       |-> params[p].private_key,
              certificate_chain |-> params[p].certificate_chain,
              arn               |-> None,
              tags              |-> tags[p],
              ok                |-> Arns \ allocated # {}]>>)
    /\ IF Arns \ allocated # {}
       THEN /\ store' = import_certificate(
                    delete_certificate(store,
                                       certificates[p][1].certificate_arn),
                    allocated, params[p].certificate, params[p].private_key,
                    params[p].certificate_chain, None, tags[p])
            /\ allocated' = allocated \cup {FreshArn(allocated)}
            /\ arn' = Set(arn, p, FreshArn(allocated))
            /\ changed' = Set(changed, p, TRUE)
            /\ pc' = Set(pc, p, "get_domain")
            /\ UNCHANGED result
       ELSE /\ store' = delete_certificate(store,
                            certificates[p][1].certificate_arn)
            /\ FailJson(p, "import failed", <<>>)
            /\ UNCHANGED <<allocated, arn, changed>>
    /\ UNCHANGED <<params, tags, certificates, idx, store0, prev, runs>>
    /\ UNCHANGED <<check_mode, pemVars>>

\* the existing certificate is different: overwrite it
PresentOverwrite(p) ==
    /\ pc[p] = "decide"
    /\ params[p].state = "present"
    /\ PresentBranch(Len(certificates[p])) = "update"
    /\ InternalError(certificates[p][1], params[p]) = "ok"
    /\ ~Same(certificates[p][1], params[p])
    /\ Import(p, certificates[p][1].certificate_arn)
    /\ UNCHANGED <<params, tags, certificates, idx, store0, prev, runs>>
    /\ UNCHANGED <<check_mode, pemVars>>

\* no certificate found: create a new one
PresentCreate(p) ==
    /\ pc[p] = "decide"
    /\ params[p].state = "present"
    /\ PresentBranch(Len(certificates[p])) = "create"
    /\ Import(p, None)
    /\ UNCHANGED <<params, tags, certificates, idx, store0, prev, runs>>
    /\ UNCHANGED <<check_mode, pemVars>>

\* domain = acm.get_domain_of_cert(arn), then exit_json
GetDomain(p) ==
    /\ pc[p] = "get_domain"
    /\ \E ok \in {FALSE, arn[p] \in DOMAIN store} :
          /\ Call(p, [op |-> "get_domain", arn |-> arn[p], ok |-> ok])
          /\ IF ok
             THEN ExitJson(p, [certificate |->
                                  [domain_name |-> get_domain_of_cert(store, arn[p]),
                                   arn |-> arn[p]],
                               changed |-> changed[p]])
             ELSE FailJson(p, "get_domain failed", <<>>)
    /\ UNCHANGED <<store, allocated, params, locals, store0, prev, runs>>
    /\ UNCHANGED <<check_mode, pemVars>>

\* a variant that goes on with the next certificate when a delete fails
AbsentDeleteIgnoringFailure(p) ==
    /\ pc[p] = "decide"
    /\ params[p].state = "absent"
    /\ idx[p] <= Len(certificates[p])
    /\ \E ok \in BOOLEAN :
          /\ Call(p, [op |-> "delete", ok |-> ok,
                      arn |-> certificates[p][idx[p]].certificate_arn])
          /\ store' = IF ok
                      THEN delete_certificate(store,
                               certificates[p][idx[p]].certificate_arn)
                      ELSE store
          /\ idx' = Set(idx, p, idx[p] + 1)
    /\ UNCHANGED <<pc, result, allocated, params, tags, certificates, arn,
                   changed, store0, prev, runs>>
    /\ UNCHANGED <<check_mode, pemVars>>

\* for cert in certificates: acm.delete_certificate(cert['certificate_arn'])
AbsentDelete(p) ==
    /\ pc[p] = "decide"
    /\ params[p].state = "absent"
    /\ idx[p] <= Len(certificates[p])
    /\ \E ok \in BOOLEAN :
          /\ Call(p, [op |-> "delete", ok |-> ok,
                      arn |-> certificates[p][idx[p]].certificate_arn])
          /\ IF ok
             THEN /\ store' = delete_certificate(store,
                                  certificates[p][idx[p]].certificate_arn)
                  /\ idx' = Set(idx, p, idx[p] + 1)
                  /\ UNCHANGED <<pc, result>>
             ELSE /\ FailJson(p, "delete failed", <<>>)
                  /\ UNCHANGED <<store, idx>>
    /\ UNCHANGED <<allocated, params, tags, certificates, arn, changed, store0,
                   prev, runs>>
    /\ UNCHANGED <<check_mode, pemVars>>

\* a variant that leaves the loop after its first deletion
AbsentExitEarly(p) ==
    /\ pc[p] = "decide"
    /\ params[p].state = "absent"
    /\ idx[p] > 1 \/ Len(certificates[p]) = 0
    /\ ExitJson(p, [arns |-> [i \in 1..Len(certificates[p]) |->
                                 certificates[p][i].certificate_arn],
                    changed |-> Len(certificates[p]) > 0])
    /\ UNCHANGED <<store, allocated, params, locals, calls, store0, prev, runs>>
    /\ UNCHANGED <<check_mode, pemVars>>

\* a variant that always reports a change
AbsentExitAlwaysChanged(p) ==
    /\ pc[p] = "decide"
    /\ params[p].state = "absent"
    /\ idx[p] > Len(certificates[p])
    /\ ExitJson(p, [arns |-> [i \in 1..Len(certificates[p]) |->
                                 certificates[p][i].certificate_arn],
                    changed |-> TRUE])
    /\ UNCHANGED <<store, allocated, params, locals, calls, store0, prev, runs>>
    /\ UNCHANGED <<check_mode, pemVars>>

\* the loop is over: report the arns and whether there were any
AbsentExit(p) ==
    /\ pc[p] = "decide"
    /\ params[p].state = "absent"
    /\ idx[p] > Len(certificates[p])
    /\ ExitJson(p, [arns |-> [i \in 1..Len(certificates[p]) |->
                                 certificates[p][i].certificate_arn],
                    changed |-> Len(certificates[p]) > 0])
    /\ UNCHANGED <<store, allocated, params, locals, calls, store0, prev, runs>>
    /\ UNCHANGED <<check_mode, pemVars>>

\* the same declaration is applied again once the invocation has ended,
\* while fewer than limit invocations have begun
Reinvoke(p, limit) ==
    /\ pc[p] \in {"done", "failed"}
    /\ runs < limit
    /\ prev' = Set(prev, p, [outcome |-> pc[p], result |-> result[p],
                             calls |-> calls[p]])
    /\ pc' = Set(pc, p, "validate")
    /\ tags' = Set(tags, p, NoneDict)
    /\ certificates' = Set(certificates, p, <<>>)
    /\ arn' = Set(arn, p, None)
    /\ changed' = Set(changed, p, FALSE)
    /\ idx' = Set(idx, p, 1)
    /\ result' = Set(result, p, NoResult)
    /\ calls' = Set(calls, p, <<>>)
    /\ store0' = Set(store0, p, store)
    /\ runs' = runs + 1
    /\ UNCHANGED <<store, allocated, params>>
    /\ UNCHANGED <<check_mode, pemVars>>

\* the same declaration is applied again
Rerun(p) == Reinvoke(p, MaxRuns)

Step(p) ==
    \/ Begin(p)
    \/ Validate(p)
    \/ GetCertificates(p)
    \/ PresentAmbiguous(p)
    \/ PresentInternalError(p)
    \/ PresentSame(p)
    \/ PresentOverwrite(p)
    \/ PresentCreate(p)
    \/ GetDomain(p)
    \/ AbsentDelete(p)
    \/ AbsentExit(p)
    \/ Rerun(p)

\* invocations run one at a time
Next == Step(1)

Spec == Init /\ [][Next]_vars

(* -------------------- two invocations at the same time ------------------ *)

\* the valid Present declarations for the Name tag Name1, without domain_name
RaceDeclarations ==
    {d \in PresentDeclarations :
        /\ PresentArgumentError(d) = "ok"
        /\ d.certificate_arn = None
        /\ d.domain_name = None}

\* one invocation for each process and one more after them
MaxRaceRuns == MaxRuns + 1

BeginRace(p) == Invoke(p, RaceDeclarations, MaxRaceRuns)

RerunRace(p) == Reinvoke(p, MaxRaceRuns)

\* nothing orders the steps of the two invocations: no lock is taken and
\* the store is not asked to check what the lookup found
NextRace ==
    \E p \in Procs :
        \/ BeginRace(p)
        \/ Validate(p)
        \/ GetCertificates(p)
        \/ PresentAmbiguous(p)
        \/ PresentInternalError(p)
        \/ PresentSame(p)
        \/ PresentOverwrite(p)
        \/ PresentCreate(p)
        \/ GetDomain(p)
        \/ RerunRace(p)

\* the records the store may hold when the two invocations begin: one
\* certificate, untagged or tagged Name1, or a record without a body
RaceRecords ==
    {StoredRecord(CertA2, CertA2, t) : t \in {EmptyDict, [Name |-> Name1]}}
    \cup {PendingRecord([Name |-> Name1], DomA)}

InitRace ==
    /\ Init
    /\ \A a \in DOMAIN store : store[a] \in RaceRecords

SpecRace == InitRace /\ [][NextRace]_vars

(* ------------------ a lookup that is not to be trusted ------------------ *)

\* the lists a lookup may return when nothing is assumed about its filter:
\* the records of any part of the inventory
LooseLists(st) ==
    {[i \in 1..Len(ArnList(S, 1)) |-> Described(st, ArnList(S, 1)[i])] :
        S \in SUBSET DOMAIN st}

\* acm.get_certificates returning any part of the inventory
GetCertificatesLoose(p) ==
    /\ pc[p] = "get_certificates"
    /\ \E l \in LooseLists(store) :
          /\ Call(p, [op |-> "list", ok |-> TRUE])
          /\ certificates' = Set(certificates, p, l)
          /\ pc' = Set(pc, p, "decide")
    /\ UNCHANGED <<store, allocated, params, tags, arn, changed, idx, result,
                   store0, prev, runs>>
    /\ UNCHANGED <<check_mode, pemVars>>

\* the Present declarations that pass the argument check
ValidPresentDeclarations ==
    {d \in PresentDeclarations : PresentArgumentError(d) = "ok"}

BeginLoose(p) == Invoke(p, ValidPresentDeclarations, MaxRuns)

\* Present invocations, one at a time, over a lookup that may return any
\* records
NextLoose ==
    \/ BeginLoose(1)
    \/ Validate(1)
    \/ GetCertificatesLoose(1)
    \/ PresentAmbiguous(1)
    \/ PresentInternalError(1)
    \/ PresentSame(1)
    \/ PresentOverwrite(1)
    \/ PresentCreate(1)
    \/ GetDomain(1)
    \/ Rerun(1)

SpecLoose == Init /\ [][NextLoose]_vars

(* ------------------- the PEM functions on their own -------------------- *)

PemAlphabet == {"A", "a", "-", " ", "\n", "\t", "\r"}

PemTexts == UNION {[1..n -> PemAlphabet] : n \in 0..MaxPemLen}

InsertAt(s, i, c) == SubSeq(s, 1, i) \o <<c>> \o SubSeq(s, i + 1, Len(s))
RemoveAt(s, i) == SubSeq(s, 1, i - 1) \o SubSeq(s, i + 1, Len(s))
ReplaceAt(s, i, c) == [s EXCEPT ![i] = c]

\* the texts one character away from a text, and the text itself
Neighbours(s) ==
    {s}
    \cup {RemoveAt(s, i) : i \in 1..Len(s)}
    \cup {ReplaceAt(s, i, c) : i \in 1..Len(s), c \in PemAlphabet}
    \cup (IF Len(s) < MaxPemLen
          THEN {InsertAt(s, i, c) : i \in 0..Len(s), c \in PemAlphabet}
          ELSE {})

\* the arguments: a text or None, and a second text near the first
InitPem ==
    /\ pem_a \in PemTexts \cup {None}
    /\ pem_b \in IF pem_a = None THEN {None, <<>>} ELSE Neighbours(pem_a)
    /\ pem_pc = "input"
    /\ pem_out = NoResult
    /\ store = EmptyDict
    /\ allocated = {}
    /\ pc = [p \in Procs |-> "idle"]
    /\ params = [p \in Procs |-> NoParams]
    /\ check_mode = [p \in Procs |-> FALSE]
    /\ tags = [p \in Procs |-> NoneDict]
    /\ certificates = [p \in Procs |-> <<>>]
    /\ arn = [p \in Procs |-> None]
    /\ changed = [p \in Procs |-> FALSE]
    /\ idx = [p \in Procs |-> 1]
    /\ result = [p \in Procs |-> NoResult]
    /\ calls = [p \in Procs |-> <<>>]
    /\ store0 = [p \in Procs |-> store]
    /\ prev = [p \in Procs |-> NoResult]
    /\ runs = 0

\* standardize_pem(pem_a)
StandardizePem ==
    /\ pem_pc = "input"
    /\ pem_out' = [once |-> standardize_pem(pem_a)]
    /\ pem_pc' = "standardized"
    /\ UNCHANGED <<pem_a, pem_b, mainVars>>

\* standardize_pem applied to its own result
StandardizePemAgain ==
    /\ pem_pc = "standardized"
    /\ pem_out' = [once |-> pem_out.once, twice |-> standardize_pem(pem_out.once)]
    /\ pem_pc' = "standardized twice"
    /\ UNCHANGED <<pem_a, pem_b, mainVars>>

\* pem_compare(pem_a, pem_b)
ComparePem ==
    /\ pem_pc = "input"
    /\ pem_out' = [same |-> pem_compare(pem_a, pem_b),
                   swapped |-> pem_compare(pem_b, pem_a)]
    /\ pem_pc' = "compared"
    /\ UNCHANGED <<pem_a, pem_b, mainVars>>

NextPem == StandardizePem \/ StandardizePemAgain \/ ComparePem

SpecPem == InitPem /\ [][NextPem]_vars

(* ------------------- vocabulary of the properties ---------------------- *)

\* the calls of the invocation with one of the given operations
CallsOf(p, ops) == SelectSeq(calls[p], LAMBDA c : c.op \in ops)

Imports(p) == CallsOf(p, {"import"})
Deletes(p) == CallsOf(p, {"delete"})
Mutations(p) == CallsOf(p, {"import", "delete"})

\* the invocation's lookup has returned its list
LookupReturned(p) == \E i \in 1..Len(calls[p]) :
                         calls[p][i].op = "list" /\ calls[p][i].ok

\* the invocation has left the decision behind it
Acted(p) == pc[p] \in {"get_domain", "done"}
            \/ (pc[p] = "failed" /\ result[p].msg \in
                    {"import failed", "get_domain failed"})

ValidationMessages ==
    {"certificate must be specified", "certificate_arn is only valid if absent",
     "name_tag must be specified", "private_key must be specified",
     "exactly one selector must be specified"}

\* the invocation is past its argument check
Validated(p) == pc[p] \notin {"idle", "validate"}

PastValidation(p) ==
    /\ Validated(p)
    /\ ~(pc[p] = "failed" /\ result[p].msg \in ValidationMessages)

\* the chain the desired state stands for
EffectiveChain(par) ==
    IF Truthy(par.certificate_chain) THEN par.certificate_chain
    ELSE par.certificate

\* a Present invocation whose lookup returned exactly one record with a body
OneMatched(p) ==
    /\ params[p].state = "present"
    /\ LookupReturned(p)
    /\ Len(certificates[p]) = 1
    /\ "certificate" \in DOMAIN certificates[p][1]

\* the matched record equals the desired state up to PEM formatting
MatchedIsDesired(p) ==
    /\ standardize_pem(certificates[p][1].certificate)
          = standardize_pem(params[p].certificate)
    /\ standardize_pem(certificates[p][1].certificate_chain)
          = standardize_pem(EffectiveChain(params[p]))

(* -------------------------------- C1 ----------------------------------- *)

\* C1: a Present invocation whose lookup returned exactly one record that
\* is PEM-equal to the desired certificate and effective chain issues no
\* import and no delete, leaves the store as it was, and when it reports,
\* reports changed=false with the arn of that record.
C1_NoOpStability ==
    \A p \in Procs :
        (OneMatched(p) /\ MatchedIsDesired(p)) =>
            /\ Mutations(p) = <<>>
            /\ store = store0[p]
            /\ pc[p] = "done" =>
                  /\ result[p].changed = FALSE
                  /\ result[p].certificate.arn
                        = certificates[p][1].certificate_arn

\* a no-op on a record whose text differs from the desired text
C1_Witness ==
    \E p \in Procs :
        /\ OneMatched(p) /\ MatchedIsDesired(p)
        /\ pc[p] = "done"
        /\ certificates[p][1].certificate # params[p].certificate
        /\ result[p].changed = FALSE

(* -------------------------------- C2 ----------------------------------- *)

\* no record of the store carries the Name tag the declaration names
NoneCarriesTag(st, name) ==
    \A a \in DOMAIN st :
        ~("Name" \in DOMAIN st[a].tags /\ st[a].tags.Name = name)

\* a Present declaration that passed the argument check
ValidPresent(p) ==
    /\ params[p].state = "present"
    /\ PastValidation(p)

\* the previous invocation of the declaration created a record
PrevCreated(p) ==
    /\ "outcome" \in DOMAIN prev[p]
    /\ prev[p].outcome = "done"
    /\ prev[p].result.changed
    /\ \E i \in 1..Len(prev[p].calls) :
          prev[p].calls[i].op = "import" /\ prev[p].calls[i].arn = None

\* C2: a valid Present declaration, when no record carries its Name tag,
\* issues one import without an arn and reports changed=true with an arn
\* that was not in the store; applying the same desired state (certificate,
\* private_key, certificate_chain, name_tag; no domain_name, which is not
\* part of a Present desired state) again right after reports changed=false
\* and issues no mutating call.
C2_CreateThenMatch ==
    \A p \in Procs :
        /\ (ValidPresent(p) /\ LookupReturned(p)
                /\ NoneCarriesTag(store0[p], params[p].name_tag)) =>
              /\ Acted(p) =>
                    /\ Len(Imports(p)) = 1
                    /\ Imports(p)[1].arn = None
                    /\ Deletes(p) = <<>>
              /\ pc[p] = "done" =>
                    /\ result[p].changed = TRUE
                    /\ result[p].certificate.arn \notin DOMAIN store0[p]
                    /\ result[p].certificate.arn \in DOMAIN store
        /\ (ValidPresent(p) /\ PrevCreated(p)
                /\ ~Truthy(params[p].domain_name)) =>
              /\ Mutations(p) = <<>>
              /\ pc[p] = "done" =>
                    /\ result[p].changed = FALSE
                    /\ result[p].certificate.arn
                          = prev[p].result.certificate.arn

\* the second application after a creation with a chain has completed
C2_Witness ==
    \E p \in Procs :
        /\ ValidPresent(p) /\ PrevCreated(p)
        /\ Truthy(params[p].certificate_chain)
        /\ pc[p] = "done"
        /\ result[p].changed = FALSE

(* -------------------------------- C3 ----------------------------------- *)

\* C3: when the lookup of a Present invocation returns two or more records
\* the invocation does not go on: it issues no import and no delete, the
\* store stays as it was, and it ends in a failure that reports all the
\* records matched.
C3_AmbiguityDetection ==
    \A p \in Procs :
        (params[p].state = "present" /\ LookupReturned(p)
            /\ Len(certificates[p]) >= 2) =>
            /\ Mutations(p) = <<>>
            /\ store = store0[p]
            /\ pc[p] \in {"decide", "failed"}
            /\ pc[p] = "failed" =>
                  /\ result[p].msg = "more than one certificate"
                  /\ result[p].info = certificates[p]

\* the failure on two records with the same Name tag
C3_Witness ==
    \E p \in Procs :
        /\ params[p].state = "present" /\ LookupReturned(p)
        /\ Len(certificates[p]) = 2
        /\ pc[p] = "failed"
        /\ Len(result[p].info) = 2

(* -------------------------------- C4 ----------------------------------- *)

\* C4: when the lookup of a Present invocation returns exactly one record
\* (with a certificate body) that is not PEM-equal to the desired state,
\* the invocation issues exactly one import, carrying the desired
\* certificate, key, chain and tags and the arn of that record, adds no
\* record to the store, and when it reports, reports changed=true with the
\* arn of the record it matched.
C4_OverwriteInPlace ==
    \A p \in Procs :
        (OneMatched(p) /\ ~MatchedIsDesired(p)) =>
            /\ DOMAIN store = DOMAIN store0[p]
            /\ Deletes(p) = <<>>
            /\ Acted(p) =>
                  /\ Len(Imports(p)) = 1
                  /\ Imports(p)[1].certificate = params[p].certificate
                  /\ Imports(p)[1].private_key = params[p].private_key
                  /\ Imports(p)[1].certificate_chain
                        = params[p].certificate_chain
                  /\ Imports(p)[1].tags = [Name |-> params[p].name_tag]
                  /\ Imports(p)[1].arn = certificates[p][1].certificate_arn
            /\ pc[p] = "done" =>
                  /\ result[p].changed = TRUE
                  /\ result[p].certificate.arn
                        = certificates[p][1].certificate_arn
                  /\ pem_compare(store[result[p].certificate.arn].certificate,
                                 params[p].certificate)

\* an overwrite of a record whose chain alone differs
C4_Witness ==
    \E p \in Procs :
        /\ OneMatched(p) /\ ~MatchedIsDesired(p)
        /\ pem_compare(certificates[p][1].certificate, params[p].certificate)
        /\ pc[p] = "done"
        /\ result[p].changed = TRUE
        /\ Len(Imports(p)) = 1

(* -------------------------------- C5 ----------------------------------- *)

\* the arns of a list of records or of calls
ArnsOf(l) == [i \in 1..Len(l) |-> l[i].arn]
MatchedArns(p) ==
    [i \in 1..Len(certificates[p]) |-> certificates[p][i].certificate_arn]

\* C5: an Absent invocation that ends in success has issued a delete for
\* every record its lookup returned, reports changed = (some record was
\* matched) and arns = the identifiers of the matched records, and none of
\* these identifiers is in the store any more.
C5_AbsentDeletesAllMatches ==
    \A p \in Procs :
        (params[p].state = "absent" /\ pc[p] = "done") =>
            /\ ArnsOf(Deletes(p)) = MatchedArns(p)
            /\ \A i \in 1..Len(Deletes(p)) : Deletes(p)[i].ok
            /\ result[p].changed = (Len(certificates[p]) > 0)
            /\ result[p].arns = MatchedArns(p)
            /\ \A i \in 1..Len(certificates[p]) :
                  /\ MatchedArns(p)[i] \in DOMAIN store0[p]
                  /\ MatchedArns(p)[i] \notin DOMAIN store

\* an Absent invocation that deleted two records
C5_Witness ==
    \E p \in Procs :
        /\ params[p].state = "absent" /\ pc[p] = "done"
        /\ Len(certificates[p]) = 2
        /\ Len(Deletes(p)) = 2
        /\ result[p].changed

(* -------------------------------- C6 ----------------------------------- *)

\* the previous invocation of the declaration ended in success
PrevSucceeded(p) == "outcome" \in DOMAIN prev[p] /\ prev[p].outcome = "done"

\* C6: an Absent invocation whose lookup returned no record issues no
\* delete and reports changed=false with arns=[]; and an Absent invocation
\* applied again right after it succeeded reports changed=false with
\* arns=[].
C6_AbsentIdempotence ==
    \A p \in Procs :
        /\ (params[p].state = "absent" /\ LookupReturned(p)
                /\ Len(certificates[p]) = 0) =>
              /\ Mutations(p) = <<>>
              /\ store = store0[p]
              /\ pc[p] = "done" =>
                    (result[p].changed = FALSE /\ result[p].arns = <<>>)
        /\ (params[p].state = "absent" /\ PrevSucceeded(p)
                /\ pc[p] = "done") =>
              /\ result[p].changed = FALSE
              /\ result[p].arns = <<>>
              /\ Mutations(p) = <<>>

\* the second application after a deletion by domain name has completed
C6_Witness ==
    \E p \in Procs :
        /\ params[p].state = "absent" /\ PrevSucceeded(p)
        /\ prev[p].result.changed
        /\ Truthy(params[p].domain_name)
        /\ pc[p] = "done"
        /\ result[p].arns = <<>>

(* -------------------------------- C7 ----------------------------------- *)

\* how many of the three selectors the declaration sets (gives a value)
SelectorsSet(par) ==
    (IF par.certificate_arn # None THEN 1 ELSE 0)
    + (IF par.domain_name # None THEN 1 ELSE 0)
    + (IF par.name_tag # None THEN 1 ELSE 0)

\* C7: an Absent declaration that sets zero, two or three of
\* certificate_arn, domain_name and name_tag ends in a validation failure
\* with no remote call issued; one that sets exactly one passes validation.
C7_AbsentSelectorExclusivity ==
    \A p \in Procs :
        (params[p].state = "absent" /\ Validated(p)) =>
            /\ SelectorsSet(params[p]) # 1 =>
                  /\ pc[p] = "failed"
                  /\ result[p].msg = "exactly one selector must be specified"
                  /\ calls[p] = <<>>
                  /\ store = store0[p]
            /\ SelectorsSet(params[p]) = 1 => PastValidation(p)

\* the rejection of an Absent declaration without any selector
C7_Witness ==
    \E p \in Procs :
        /\ params[p].state = "absent"
        /\ SelectorsSet(params[p]) = 0
        /\ pc[p] = "failed"
        /\ calls[p] = <<>>

(* -------------------------------- C8 ----------------------------------- *)

C9_AtMostOneMutatingCall ==
    \A p \in Procs : Len(Mutations(p)) <= 1

\* C9, amended: a Present invocation issues at most one mutating call, an
\* import; an Absent invocation issues no import and at most one delete
\* for each record its lookup returned.
C9_MutatingCallsBounded ==
    \A p \in Procs :
        /\ params[p].state = "present" =>
              (Len(Mutations(p)) <= 1 /\ Deletes(p) = <<>>)
        /\ params[p].state = "absent" =>
              /\ Imports(p) = <<>>
              /\ Len(Deletes(p)) <= Len(certificates[p])
              /\ \A i \in 1..Len(Deletes(p)) :
                    Deletes(p)[i].arn = MatchedArns(p)[i]

\* an Absent invocation that has issued its second delete
C9_Witness ==
    \E p \in Procs :
        /\ params[p].state = "absent"
        /\ Len(Deletes(p)) = 2
        /\ Len(certificates[p]) = 2

(* -------------------------------- C10 ---------------------------------- *)

\* the stored chain of the matched record is PEM-equal to the text
ChainIs(p, pem) ==
    standardize_pem(certificates[p][1].certificate_chain) = standardize_pem(pem)

CertIs(p, pem) ==
    standardize_pem(certificates[p][1].certificate) = standardize_pem(pem)

\* the invocation overwrote: one import, and changed=true when it reports
Overwrote(p) ==
    /\ Acted(p) => Len(Imports(p)) = 1
    /\ pc[p] = "done" => result[p].changed = TRUE

\* the invocation did nothing: no import, changed=false when it reports
DidNothing(p) ==
    /\ Imports(p) = <<>>
    /\ pc[p] = "done" => result[p].changed = FALSE

\* C10: with exactly one matched record, an omitted certificate_chain
\* makes the chain check compare the stored chain with the desired
\* certificate, a supplied one with the supplied chain: a record
\* {certificate: CERT, chain: CERT} yields changed=false when the chain is
\* omitted, a record whose chain is not PEM-equal to CERT an overwrite.
C10_ChainEchoAsymmetry ==
    \A p \in Procs :
        OneMatched(p) =>
            /\ ~Truthy(params[p].certificate_chain) =>
                  /\ (CertIs(p, params[p].certificate)
                         /\ ChainIs(p, params[p].certificate)) => DidNothing(p)
                  /\ ~ChainIs(p, params[p].certificate) => Overwrote(p)
            /\ Truthy(params[p].certificate_chain) =>
                  /\ (CertIs(p, params[p].certificate)
                         /\ ChainIs(p, params[p].certificate_chain))
                        => DidNothing(p)
                  /\ ~ChainIs(p, params[p].certificate_chain) => Overwrote(p)

\* chain omitted, the record echoes its certificate as chain: no change
C10_Witness ==
    \E p \in Procs :
        /\ OneMatched(p)
        /\ params[p].certificate_chain = None
        /\ certificates[p][1].certificate_chain
              = certificates[p][1].certificate
        /\ ChainIs(p, params[p].certificate)
        /\ pc[p] = "done"
        /\ result[p].changed = FALSE
        /\ calls[p][Len(calls[p])].op = "get_domain"

(* --------------------------- PEM properties ---------------------------- *)

\* the payload of a PEM text: its letters in order, case kept (base64 is
\* case-sensitive); whitespace and dashes are framing
PayloadLetters == {"A", "a"}

Payload(s) == SelectSeq(s, LAMBDA ch : ch \in PayloadLetters)

\* every character of the text is in the alphabet
Over(s, alphabet) == \A i \in 1..Len(s) : s[i] \in alphabet

\* upper- and lower-case payload letters, dash, space, newline
FramedAlphabet == PayloadLetters \cup {"-", " ", "\n"}

\* C11: two PEM texts over payload letters, dash, space and newline whose
\* payload characters differ never compare equal.  The code lower-cases both
\* texts, so this fails: 'A' and 'a' compare equal.
C11_NoFalsePositives ==
    ( /\ pem_pc = "compared"
      /\ pem_a # None /\ pem_b # None
      /\ Over(pem_a, FramedAlphabet) /\ Over(pem_b, FramedAlphabet)
      /\ Payload(pem_a) # Payload(pem_b) )
    => pem_out.same = FALSE

\* the whitespace characters of the alphabet (str.isspace)
Whitespace == {" ", "\n", "\t", "\r"}

SwapCase(c) ==
    CASE c = "A" -> "a"
      [] c = "a" -> "A"
      [] OTHER -> c

\* the texts that differ from s by one reformatting step: a whitespace
\* character inserted or removed, the case of a letter changed, a run of
\* dashes made one longer or (if longer than one) one shorter
Reformats(s) ==
    {RemoveAt(s, i) : i \in {j \in 1..Len(s) : s[j] \in Whitespace}}
    \cup {InsertAt(s, i, c) : i \in 0..Len(s), c \in Whitespace}
    \cup {ReplaceAt(s, i, SwapCase(s[i])) : i \in 1..Len(s)}
    \cup {InsertAt(s, i, "-") : i \in {j \in 1..Len(s) : s[j] = "-"}}
    \cup {RemoveAt(s, i) :
             i \in {j \in 1..(Len(s) - 1) : s[j] = "-" /\ s[j + 1] = "-"}}

\* C12: a PEM text compares equal to each of its reformattings (whitespace
\* inserted or removed, letter case changed, a dash run lengthened or
\* shortened to no less than one dash).  The code removes only space, newline
\* and tab, so this fails for a carriage return inside the text.
C12_ReformatInvariance ==
    (pem_pc = "compared" /\ pem_a # None /\ pem_b \in Reformats(pem_a))
    => pem_out.same = TRUE

\* C13: standardize_pem applied to its own result returns that result; the
\* result of None is the empty string; the result holds no space, tab or
\* newline and no two consecutive dashes.
C13_NormalizationIdempotence ==
    /\ pem_pc \in {"standardized", "standardized twice"} =>
          /\ pem_a = None => pem_out.once = <<>>
          /\ Over(pem_out.once, PemAlphabet \ {" ", "\t", "\n"})
          /\ ~HasDoubleDash(pem_out.once)
    /\ pem_pc = "standardized twice" => pem_out.twice = pem_out.once

\* standardize_pem was applied twice to a text whose dashes and whitespace
\* it had to rewrite
C13_Witness ==
    /\ pem_pc = "standardized twice"
    /\ pem_a # None
    /\ HasDoubleDash(RemoveChar(pem_a, " "))
    /\ ~HasDoubleDash(pem_a)
    /\ pem_out.once # pem_a

(* -------------------------------- C14 ---------------------------------- *)

\* the records of a store that carry the Name tag with the given value
NameTagged(st, name) ==
    {a \in DOMAIN st :
        /\ "tags" \in DOMAIN st[a]
        /\ "Name" \in DOMAIN st[a].tags
        /\ st[a].tags.Name = name}

\* no two records of the store carry the same Name tag value
UniqueNameTags(st) ==
    \A name \in {Name1, Name2} : Cardinality(NameTagged(st, name)) <= 1

\* C14: invocations run one after the other never take a store in which no
\* two records carry the same Name tag value to a store in which two do.
\* The code passes domain_name to the lookup of a Present invocation too, so
\* a record with the Name tag and another domain is not found and a second
\* record with the tag is created.
C14_NameTagUniqueness ==
    [][UniqueNameTags(store) => UniqueNameTags(store')]_vars

(* -------------------------------- C15 ---------------------------------- *)

Lists(p) == CallsOf(p, {"list"})

\* C15: within one invocation the inventory is read at most once, the read
\* is the first remote call, every import and every delete comes after a
\* read that returned, and an invocation whose arguments fail the check
\* issues no remote call at all.
C15_ReadBeforeWrite ==
    \A p \in Procs :
        /\ Len(Lists(p)) <= 1
        /\ calls[p] # <<>> => calls[p][1].op = "list"
        /\ Mutations(p) # <<>> => calls[p][1].ok
        /\ (Validated(p) /\ ArgumentError(params[p]) # "ok") => calls[p] = <<>>

\* an Absent invocation that read once and then deleted two records
C15_Witness ==
    \E p \in Procs :
        /\ pc[p] = "done"
        /\ Len(Lists(p)) = 1
        /\ Len(Deletes(p)) = 2
        /\ store # store0[p]

(* -------------------------------- C16 ---------------------------------- *)

\* a successful import of a new record is among the calls
CreatedIn(cs) ==
    \E i \in 1..Len(cs) : cs[i].op = "import" /\ cs[i].ok /\ cs[i].arn = None

\* the first invocations of p and q, both Present for the same Name tag,
\* both read the inventory and found no record
BothMissed(p, q) ==
    /\ prev[p] = NoResult /\ prev[q] = NoResult
    /\ ValidPresent(p) /\ ValidPresent(q)
    /\ params[p].name_tag = params[q].name_tag
    /\ LookupReturned(p) /\ LookupReturned(q)
    /\ certificates[p] = <<>> /\ certificates[q] = <<>>

\* a later invocation of p: it began when two records already carried its
\* Name tag, and it has taken its decision
LaterDecided(p) ==
    /\ prev[p] # NoResult
    /\ ValidPresent(p)
    /\ Cardinality(NameTagged(store0[p], params[p].name_tag)) >= 2
    /\ pc[p] \notin {"get_certificates", "decide"}
    /\ ~(pc[p] = "failed" /\ result[p].msg = "list failed")

\* C16: when two Present invocations for the same Name tag run at the same
\* time and both read the inventory before either imports, both of them
\* create a record: once both have reported, both report changed=true and
\* the store holds two records with that Name tag; a Present invocation for
\* the tag that begins after that fails on finding more than one certificate
\* and imports nothing.
C16_UnprotectedRace ==
    \A p \in Procs : \A q \in Procs \ {p} :
        /\ (BothMissed(p, q) /\ pc[p] = "done" /\ pc[q] = "done") =>
              /\ result[p].changed = TRUE
              /\ result[q].changed = TRUE
              /\ result[p].certificate.arn # result[q].certificate.arn
              /\ {result[p].certificate.arn, result[q].certificate.arn}
                    \subseteq NameTagged(store, params[p].name_tag)
        /\ LaterDecided(p) =>
              /\ pc[p] = "failed"
              /\ result[p].msg = "more than one certificate"
              /\ Mutations(p) = <<>>

\* both invocations created a record for the tag no record carried, and the
\* invocation after them has failed on the two records
C16_Witness ==
    \E p \in Procs : \E q \in Procs \ {p} :
        /\ pc[q] = "done" /\ prev[q] = NoResult
        /\ certificates[q] = <<>> /\ CreatedIn(calls[q])
        /\ result[q].changed = TRUE
        /\ prev[p] # NoResult /\ prev[p].outcome = "done"
        /\ CreatedIn(prev[p].calls) /\ prev[p].result.changed = TRUE
        /\ Cardinality(NameTagged(store, Name1)) = 2
        /\ pc[p] = "failed"
        /\ result[p].msg = "more than one certificate"
        /\ Len(result[p].info) = 2

(* -------------------------------- C19 ---------------------------------- *)

\* C19: an invocation run with check mode on issues no import and no delete
\* and leaves the store as it was.  The code never reads module.check_mode,
\* so it imports and deletes as in a normal run.
C19_CheckModeNoMutation ==
    \A p \in Procs :
        check_mode[p] => (Mutations(p) = <<>> /\ store = store0[p])

(* -------------------------------- C17 ---------------------------------- *)

\* the record at arn a satisfies the selector of the Absent declaration
Satisfies(st, a, par) ==
    \/ par.certificate_arn # None /\ a = par.certificate_arn
    \/ par.domain_name # None /\ st[a].domain_name = par.domain_name
    \/ par.name_tag # None /\ a \in NameTagged(st, par.name_tag)

\* C17: in an Absent invocation that passed the argument check every delete
\* call names a record that satisfies the selector, and every record that
\* does not satisfy it stays in the store as it was.  The check counts a
\* selector given as '' (it is not None) but the lookup takes '' for no
\* criterion, so the whole inventory is matched and deleted.
C17_AbsentTouchesOnlyMatches ==
    \A p \in Procs :
        (params[p].state = "absent" /\ PastValidation(p)) =>
            /\ \A i \in 1..Len(Deletes(p)) :
                  /\ Deletes(p)[i].arn \in DOMAIN store0[p]
                  /\ Satisfies(store0[p], Deletes(p)[i].arn, params[p])
            /\ \A a \in DOMAIN store0[p] :
                  ~Satisfies(store0[p], a, params[p]) =>
                      (a \in DOMAIN store /\ store[a] = store0[p][a])

(* -------------------------------- C18 ---------------------------------- *)

\* a delete call of the invocation has failed
DeleteFailed(p) == \E i \in 1..Len(Deletes(p)) : ~Deletes(p)[i].ok

\* C18: when a delete call of an Absent invocation fails, the invocation
\* ends in failure and reports neither changed nor arns; the failed call is
\* the last call it issues, the deletes before it succeeded and their records
\* are gone, nothing is imported, and the records matched but not yet
\* deleted are in the store as they were.
C18_PartialDeleteFailure ==
    \A p \in Procs :
        (params[p].state = "absent" /\ DeleteFailed(p)) =>
            /\ pc[p] = "failed"
            /\ result[p].failed = TRUE
            /\ result[p].msg = "delete failed"
            /\ DOMAIN result[p] \cap {"changed", "arns"} = {}
            /\ calls[p][Len(calls[p])].op = "delete"
            /\ \A i \in 1..(Len(calls[p]) - 1) : calls[p][i].ok
            /\ Imports(p) = <<>>
            /\ \A i \in 1..(Len(Deletes(p)) - 1) :
                  /\ Deletes(p)[i].arn = certificates[p][i].certificate_arn
                  /\ Deletes(p)[i].arn \notin DOMAIN store
            /\ \A i \in Len(Deletes(p))..Len(certificates[p]) :
                  LET a == certificates[p][i].certificate_arn
                  IN  a \in DOMAIN store /\ store[a] = store0[p][a]

\* the second of two deletes failed after the first had removed its record
C18_Witness ==
    \E p \in Procs :
        /\ params[p].state = "absent"
        /\ pc[p] = "failed"
        /\ Len(certificates[p]) = 2
        /\ Len(Deletes(p)) = 2
        /\ Deletes(p)[1].ok /\ ~Deletes(p)[2].ok
        /\ Cardinality(DOMAIN store) = Cardinality(DOMAIN store0[p]) - 1

(* -------------------------------- C20 ---------------------------------- *)

InternalMessages ==
    {"unsure which certificate to update", "unsure what the existing cert is"}

\* the record has no tags, no Name tag, another Name tag, or no body
NotUpdatable(old_cert, par) ==
    \/ "tags" \notin DOMAIN old_cert
    \/ "Name" \notin DOMAIN old_cert.tags
    \/ old_cert.tags.Name # par.name_tag
    \/ "certificate" \notin DOMAIN old_cert

\* the lookup of the invocation returned what a lookup that filters by the
\* criteria given returns
LookupAsSpecified(p) ==
    /\ LookupReturned(p)
    /\ certificates[p] = get_certificates(store0[p], params[p].domain_name,
                             params[p].certificate_arn, TagsOf(params[p]))

\* a Present invocation whose lookup returned one record it cannot update
OneNotUpdatable(p) ==
    /\ params[p].state = "present"
    /\ LookupReturned(p)
    /\ Len(certificates[p]) = 1
    /\ NotUpdatable(certificates[p][1], params[p])

====
